---- MODULE Spec2Model ----
(***************************************************************************)
(* Model of src/app.py: the bullish-signal stock screener.                 *)
(*                                                                         *)
(*   - Indicator engine (add_ichimoku, add_macd) over price series         *)
(*   - Cloud-position evaluator (is_above_cloud)                           *)
(*   - Per-ticker decision pipeline (is_bullish), one step per fetch       *)
(*   - Scan coordinator (screen) over a ThreadPoolExecutor                 *)
(*                                                                         *)
(* Floating point numbers are modelled as exact rationals plus NaN.        *)
(* Python exceptions are modelled as the outcome "Raise".                  *)
(***************************************************************************)
EXTENDS Integers, Sequences, FiniteSets, Bags, TLC

(***************************************************************************)
(* Numbers: a float is a reduced fraction [n, d] with d > 0; NaN has d = 0 *)
(***************************************************************************)
NaN == [n |-> 0, d |-> 0]

isna(x) == x.d = 0

Abs(k) == IF k < 0 THEN -k ELSE k

RECURSIVE GCD(_, _)
GCD(a, b) == IF b = 0 THEN a ELSE GCD(b, a % b)

LCM(a, b) == (a \div GCD(a, b)) * b

Rat(num, den) ==
    LET g == GCD(Abs(num), den)
    IN  [n |-> num \div g, d |-> den \div g]

Num(k) == [n |-> k, d |-> 1]

RAdd(a, b) ==
    IF isna(a) \/ isna(b) THEN NaN
    ELSE LET l == LCM(a.d, b.d)
         IN  Rat(a.n * (l \div a.d) + b.n * (l \div b.d), l)

RSub(a, b) ==
    IF isna(a) \/ isna(b) THEN NaN
    ELSE LET l == LCM(a.d, b.d)
         IN  Rat(a.n * (l \div a.d) - b.n * (l \div b.d), l)

RMul(a, b) ==
    IF isna(a) \/ isna(b) THEN NaN
    ELSE LET g1 == GCD(Abs(a.n), b.d)
             g2 == GCD(Abs(b.n), a.d)
         IN  Rat((a.n \div g1) * (b.n \div g2), (a.d \div g2) * (b.d \div g1))

RDiv(a, b) ==
    IF isna(a) \/ isna(b) \/ b.n = 0 THEN NaN
    ELSE RMul(a, IF b.n < 0 THEN [n |-> -b.d, d |-> -b.n] ELSE [n |-> b.d, d |-> b.n])

\* Python comparisons on floats: every comparison with NaN is False.
RGt(a, b) ==
    /\ ~isna(a)
    /\ ~isna(b)
    /\ LET l == LCM(a.d, b.d) IN a.n * (l \div a.d) > b.n * (l \div b.d)

RLe(a, b) ==
    /\ ~isna(a)
    /\ ~isna(b)
    /\ LET l == LCM(a.d, b.d) IN a.n * (l \div a.d) <= b.n * (l \div b.d)

\* Python's builtin max(a, b): b when b > a, otherwise a.
PyMax(a, b) == IF RGt(b, a) THEN b ELSE a

(***************************************************************************)
(* Series (columns): functions 1..rows -> number.  iloc(s, rows, -1) is    *)
(* the latest value.                                                       *)
(***************************************************************************)
iloc(s, rows, k) == s[rows + 1 + k]

\* Series.rolling(w).max(): min_periods = w, so the value is NaN unless the
\* window holds w defined observations.
rolling_max(s, rows, w) ==
    [i \in 1..rows |->
        IF i < w \/ (\E j \in (i - w + 1)..i : isna(s[j])) THEN NaN
        ELSE LET win == {s[j] : j \in (i - w + 1)..i}
             IN  CHOOSE x \in win : \A y \in win : RLe(y, x)]

rolling_min(s, rows, w) ==
    [i \in 1..rows |->
        IF i < w \/ (\E j \in (i - w + 1)..i : isna(s[j])) THEN NaN
        ELSE LET win == {s[j] : j \in (i - w + 1)..i}
             IN  CHOOSE x \in win : \A y \in win : RLe(x, y)]

\* Variant of shift that moves values k rows earlier, as shift(-k) does.
shift_back(s, rows, k) == [i \in 1..rows |-> IF i + k > rows THEN NaN ELSE s[i + k]]

\* Variant of shift that moves values one row too far.
shift_one_more(s, rows, k) == [i \in 1..rows |-> IF i <= k + 1 THEN NaN ELSE s[i - k - 1]]

\* Series.shift(k): values move k rows later, the first k rows become NaN.
shift(s, rows, k) == [i \in 1..rows |-> IF i <= k THEN NaN ELSE s[i - k]]

SAdd(a, b, rows) == [i \in 1..rows |-> RAdd(a[i], b[i])]

SSub(a, b, rows) == [i \in 1..rows |-> RSub(a[i], b[i])]

SHalf(a, rows) == [i \in 1..rows |-> RDiv(a[i], Num(2))]

\* Series.ewm(span, adjust=False).mean(): alpha = 2/(span+1), seeded by the
\* first observation; a NaN observation carries the previous value forward
\* and ages its weight (ignore_na=False); a value equal to the running mean
\* leaves it unchanged.
RECURSIVE ewm_loop(_, _, _, _, _)
ewm_loop(vals, rows, alpha, old_wt, out) ==
    IF Len(out) >= rows THEN out
    ELSE LET weighted == out[Len(out)]
             cur      == vals[Len(out) + 1]
             aged     == RMul(old_wt, RSub(Num(1), alpha))
             mixed    == RDiv(RAdd(RMul(aged, weighted), RMul(alpha, cur)),
                              RAdd(aged, alpha))
             w2       == IF isna(weighted) THEN cur
                         ELSE IF isna(cur) THEN weighted
                         ELSE IF weighted # cur THEN mixed
                         ELSE weighted
             wt2      == IF isna(weighted) THEN old_wt
                         ELSE IF isna(cur) THEN aged
                         ELSE Num(1)
         IN  ewm_loop(vals, rows, alpha, wt2, Append(out, w2))

ewm_mean(vals, rows, span) ==
    IF rows = 0 THEN <<>>
    ELSE ewm_loop(vals, rows, Rat(2, span + 1), Num(1), <<vals[1]>>)

(***************************************************************************)
(* Data frames: [rows, cols] where cols maps column names to series.       *)
(* A column that is absent makes df[name] raise KeyError.                  *)
(***************************************************************************)
HasCol(df, name) == name \in DOMAIN df.cols

df_empty(df) == df.rows = 0 \/ DOMAIN df.cols = {}

df_len(df) == df.rows

WithCol(df, name, s) ==
    [rows |-> df.rows,
     cols |-> [c \in (DOMAIN df.cols) \cup {name} |-> IF c = name THEN s ELSE df.cols[c]]]

(***************************************************************************)
(* Indicator engine                                                        *)
(***************************************************************************)
\* add_ichimoku: requires the High and Low columns.
add_ichimoku(df) ==
    LET r       == df.rows
        high9   == rolling_max(df.cols["High"], r, 9)
        low9    == rolling_min(df.cols["Low"], r, 9)
        Tenkan  == SHalf(SAdd(high9, low9, r), r)
        high26  == rolling_max(df.cols["High"], r, 26)
        low26   == rolling_min(df.cols["Low"], r, 26)
        Kijun   == SHalf(SAdd(high26, low26, r), r)
        SenkouA == shift(SHalf(SAdd(Tenkan, Kijun, r), r), r, 26)
        SenkouB == shift(SHalf(SAdd(rolling_max(df.cols["High"], r, 52),
                                    rolling_min(df.cols["Low"], r, 52), r), r), r, 26)
    IN  WithCol(WithCol(WithCol(WithCol(df, "Tenkan", Tenkan), "Kijun", Kijun),
                        "Senkou_A", SenkouA), "Senkou_B", SenkouB)

\* add_macd with the defaults fast=12, slow=26, signal=9: requires Close.
add_macd(df) ==
    LET r        == df.rows
        ema_fast == ewm_mean(df.cols["Close"], r, 12)
        ema_slow == ewm_mean(df.cols["Close"], r, 26)
        MACD     == SSub(ema_fast, ema_slow, r)
        Signal   == ewm_mean(MACD, r, 9)
    IN  WithCol(WithCol(df, "MACD", MACD), "MACD_Signal", Signal)

(***************************************************************************)
(* Cloud-position evaluator.  Outcomes: "True", "False", or "Raise" when   *)
(* a column lookup fails (KeyError).                                       *)
(***************************************************************************)
\* Variant of is_above_cloud without the 100-bar length check.
is_above_cloud_no_len(df) ==
    IF ~HasCol(df, "High") \/ ~HasCol(df, "Low") THEN "Raise"
    ELSE LET ich == add_ichimoku(df)
             a   == iloc(ich.cols["Senkou_A"], ich.rows, -1)
             b   == iloc(ich.cols["Senkou_B"], ich.rows, -1)
         IN  IF isna(a) \/ isna(b) THEN "False"
             ELSE IF ~HasCol(ich, "Close") THEN "Raise"
             ELSE IF RGt(iloc(ich.cols["Close"], ich.rows, -1), PyMax(a, b)) THEN "True"
             ELSE "False"

\* Variant of is_above_cloud that absorbs its own failures as "not above".
is_above_cloud_absorbing(df) ==
    IF df_len(df) < 100 THEN "False"
    ELSE IF ~HasCol(df, "High") \/ ~HasCol(df, "Low") THEN "False"
    ELSE LET ich == add_ichimoku(df)
             a   == iloc(ich.cols["Senkou_A"], ich.rows, -1)
             b   == iloc(ich.cols["Senkou_B"], ich.rows, -1)
         IN  IF isna(a) \/ isna(b) THEN "False"
             ELSE IF ~HasCol(ich, "Close") THEN "False"
             ELSE IF RGt(iloc(ich.cols["Close"], ich.rows, -1), PyMax(a, b)) THEN "True"
             ELSE "False"

is_above_cloud(df) ==
    IF df_len(df) < 100 THEN "False"
    ELSE IF ~HasCol(df, "High") \/ ~HasCol(df, "Low") THEN "Raise"
    ELSE LET ich == add_ichimoku(df)
             a   == iloc(ich.cols["Senkou_A"], ich.rows, -1)
             b   == iloc(ich.cols["Senkou_B"], ich.rows, -1)
         IN  IF isna(a) \/ isna(b) THEN "False"
             ELSE IF ~HasCol(ich, "Close") THEN "Raise"
             ELSE IF RGt(iloc(ich.cols["Close"], ich.rows, -1), PyMax(a, b)) THEN "True"
             ELSE "False"

(***************************************************************************)
(* Market-data provider: what a yf.download call can produce.  A response  *)
(* is named; Frame gives the data frame of a response that returns one.    *)
(***************************************************************************)
\* Number of bars of a full-history series.
Hist == 100

OHLC(n, high, low, close) ==
    [rows |-> n, cols |-> [High |-> high, Low |-> low, Close |-> close]]

Const(n, v) == [i \in 1..n |-> Num(v)]

\* Flat at 10, the last `tail` closes (and highs) at `last`.
Step(n, tail, last) == [i \in 1..n |-> IF i > n - tail THEN Num(last) ELSE Num(10)]

Frame(r) ==
    CASE r = "empty"    -> [rows |-> 0, cols |-> [High |-> <<>>, Low |-> <<>>, Close |-> <<>>]]
      [] r = "short"    -> OHLC(99, Step(99, 1, 12), Const(99, 10), Step(99, 1, 12))
      [] r = "up"       -> OHLC(Hist, Step(Hist, 1, 12), Const(Hist, 10), Step(Hist, 1, 12))
      [] r = "flat"     -> OHLC(Hist, Const(Hist, 10), Const(Hist, 10), Const(Hist, 10))
      [] r = "late"     -> OHLC(Hist, Step(Hist, 2, 12), Const(Hist, 10), Step(Hist, 2, 12))
      [] r = "down"     -> OHLC(Hist, Const(Hist, 10), Step(Hist, 1, 8), Step(Hist, 1, 8))
      [] r = "capped"   -> OHLC(Hist, Const(Hist, 20), Const(Hist, 10), Step(Hist, 1, 12))
      [] r = "nanclose" -> OHLC(Hist, Const(Hist, 10), Const(Hist, 10), [i \in 1..Hist |-> NaN])
      [] r = "nanspan"  -> OHLC(Hist, [i \in 1..Hist |-> IF i = Hist - 70 THEN NaN
                                                          ELSE IF i = Hist THEN Num(12)
                                                          ELSE Num(10)],
                                Const(Hist, 10), Step(Hist, 1, 12))
      [] r = "nohigh"   -> [rows |-> Hist,
                            cols |-> [Low |-> Const(Hist, 10), Close |-> Step(Hist, 1, 12)]]
      [] r = "noclose"  -> [rows |-> Hist,
                            cols |-> [High |-> Const(Hist, 10), Low |-> Const(Hist, 10)]]

\* Every response of the provider; "raise" is a provider error.
Responses ==
    {"raise", "empty", "short", "up", "flat", "late", "down", "capped",
     "nanclose", "nanspan", "nohigh", "noclose"}

\* Responses drawn at the hourly and the minute fetch.
Intraday == {"raise", "empty", "short", "up"}

(***************************************************************************)
(* Ticker universe.  A symbol is its sequence of character codes, so that  *)
(* str.replace and the ordering of list.sort are modelled on characters.   *)
(***************************************************************************)
\* Number of symbols the universe provider chooses from.
NTickers == 2

\* Number of tickers of the large universe used to load the worker pool.
PoolTickers == 31

\* "AAA", "BBB", "B.B", "AA"
RawSymbols == << <<65, 65, 65>>, <<66, 66, 66>>, <<66, 46, 66>>, <<65, 65>> >>

RawUniverses ==
    {u \in UNION {[1..k -> {RawSymbols[i] : i \in 1..NTickers}] : k \in 0..NTickers} :
        \A i, j \in DOMAIN u : i # j => u[i] # u[j]}

\* A universe longer than the pool; screen() submits one call per list entry
\* and does not deduplicate, so the entries may be the same symbol.
PoolUniverse == [i \in 1..PoolTickers |-> RawSymbols[1]]

\* Variant of replace that replaces the first '.' only.
replace_first(ticker) ==
    [i \in 1..Len(ticker) |->
        IF ticker[i] = 46 /\ (\A j \in 1..(i - 1) : ticker[j] # 46) THEN 45 ELSE ticker[i]]

\* ticker.replace('.', '-')
replace(ticker) == [i \in 1..Len(ticker) |-> IF ticker[i] = 46 THEN 45 ELSE ticker[i]]

\* Python's str < str: lexicographic on code points, a proper prefix is smaller.
RECURSIVE str_lt(_, _)
str_lt(a, b) ==
    IF b = <<>> THEN FALSE
    ELSE IF a = <<>> THEN TRUE
    ELSE IF Head(a) # Head(b) THEN Head(a) < Head(b)
    ELSE str_lt(Tail(a), Tail(b))

\* list.sort(): the ascending arrangement of the list (insertion sort).
RECURSIVE insert_sorted(_, _)
insert_sorted(x, s) ==
    IF s = <<>> THEN <<x>>
    ELSE IF str_lt(Head(s), x) THEN <<Head(s)>> \o insert_sorted(x, Tail(s))
    ELSE <<x>> \o s

\* Variant of list_sort that leaves the list in completion order.
list_sort_skipped(s) == s

RECURSIVE list_sort(_)
list_sort(s) == IF s = <<>> THEN <<>> ELSE insert_sorted(Head(s), list_sort(Tail(s)))

(***************************************************************************)
(* Per-ticker decision pipeline (is_bullish), as pure steps between the    *)
(* blocking fetches.  Step outcomes: "Raise", "False", "True", "Pass".     *)
(***************************************************************************)
\* Variant of macd_cross that reads the earlier bar two positions back.
macd_cross_two_back(df) ==
    /\ RLe(iloc(df.cols["MACD"], df.rows, -3), iloc(df.cols["MACD_Signal"], df.rows, -3))
    /\ RGt(iloc(df.cols["MACD"], df.rows, -1), iloc(df.cols["MACD_Signal"], df.rows, -1))

\* Variant of macd_cross that looks at the latest bar only.
macd_cross_latest_only(df) ==
    RGt(iloc(df.cols["MACD"], df.rows, -1), iloc(df.cols["MACD_Signal"], df.rows, -1))

\* Lines 64-65: MACD.iloc[-2] <= Signal.iloc[-2] and MACD.iloc[-1] > Signal.iloc[-1]
macd_cross(df) ==
    /\ RLe(iloc(df.cols["MACD"], df.rows, -2), iloc(df.cols["MACD_Signal"], df.rows, -2))
    /\ RGt(iloc(df.cols["MACD"], df.rows, -1), iloc(df.cols["MACD_Signal"], df.rows, -1))

\* The value of above_daily, "None" when the evaluator is not reached.
above_daily_of(r) ==
    IF r = "raise" THEN "None"
    ELSE IF df_empty(Frame(r)) \/ df_len(Frame(r)) < 100 THEN "None"
    ELSE is_above_cloud(Frame(r))

\* The value of macd_cross, "None" when line 64 is not reached.
macd_cross_of(r) ==
    IF above_daily_of(r) \in {"None", "Raise"} THEN "None"
    ELSE IF ~HasCol(Frame(r), "Close") THEN "None"
    ELSE LET m == add_macd(Frame(r))
         IN  IF isna(iloc(m.cols["MACD"], m.rows, -1)) THEN "None"
             ELSE IF macd_cross(m) THEN "True"
             ELSE "False"

\* Variant of daily_gate that forgets the momentum cross.
daily_gate_no_cross(above_daily, cross) == above_daily = "True"

\* if not (above_daily and macd_cross): return False
daily_gate(above_daily, cross) == above_daily = "True" /\ cross

\* Lines 55-68: the daily fetch returned r.
daily_step(r) ==
    IF r = "raise" THEN "Raise"
    ELSE LET daily_data == Frame(r)
         IN  IF df_empty(daily_data) \/ df_len(daily_data) < 100 THEN "False"
             ELSE LET above_daily == is_above_cloud(daily_data)
                  IN  IF above_daily = "Raise" THEN "Raise"
                      ELSE IF ~HasCol(daily_data, "Close") THEN "Raise"
                      ELSE LET m == add_macd(daily_data)
                           IN  IF isna(iloc(m.cols["MACD"], m.rows, -1)) THEN "False"
                               ELSE IF ~daily_gate(above_daily, macd_cross(m)) THEN "False"
                               ELSE "Pass"

\* Variant of hourly_step that returns as soon as the hourly series is empty.
hourly_step_checks_empty(r) ==
    IF r = "raise" THEN "Raise"
    ELSE IF df_empty(Frame(r)) THEN "False"
    ELSE "Pass"

\* Line 71: the hourly fetch returned r.
hourly_step(r) == IF r = "raise" THEN "Raise" ELSE "Pass"

\* The values of above_hourly and above_min, "None" when not reached.
above_hourly_of(h, m) ==
    IF m = "raise" \/ df_empty(Frame(h)) \/ df_empty(Frame(m)) THEN "None"
    ELSE is_above_cloud(Frame(h))

above_min_of(h, m) ==
    IF above_hourly_of(h, m) \in {"None", "Raise"} THEN "None"
    ELSE is_above_cloud(Frame(m))

\* Variant of both_above that accepts either timeframe.
both_above_either(above_hourly, above_min) == above_hourly = "True" \/ above_min = "True"

\* return above_hourly and above_min
both_above(above_hourly, above_min) == above_hourly = "True" /\ above_min = "True"

\* Lines 72-80: the hourly fetch had returned h, the minute fetch returned m.
minute_step(h, m) ==
    IF m = "raise" THEN "Raise"
    ELSE IF df_empty(Frame(h)) \/ df_empty(Frame(m)) THEN "False"
    ELSE LET above_hourly == is_above_cloud(Frame(h))
         IN  IF above_hourly = "Raise" THEN "Raise"
             ELSE LET above_min == is_above_cloud(Frame(m))
                  IN  IF above_min = "Raise" THEN "Raise"
                      ELSE IF both_above(above_hourly, above_min) THEN "True"
                      ELSE "False"

\* Variant of except_handler that lets the exception through.
except_handler_reraise(outcome) == outcome

\* Variant of except_handler that returns True from the handler.
except_handler_true(outcome) == IF outcome = "Raise" THEN "True" ELSE outcome

\* Lines 82-83: except Exception: return False
except_handler(outcome) == IF outcome = "Raise" THEN "False" ELSE outcome

(***************************************************************************)
(* The pipeline steps tabulated over the provider's responses              *)
(***************************************************************************)
\* f @@ f is f, held as an explicit table of its values.
Table(f) == f @@ f

DailyStep == Table([r \in Responses |-> daily_step(r)])

AboveDaily == Table([r \in Responses |-> above_daily_of(r)])

CrossDaily == Table([r \in Responses |-> macd_cross_of(r)])

MinuteStep ==
    Table([h \in Intraday \ {"raise"} |-> Table([m \in Intraday |-> minute_step(h, m)])])

AboveHourly ==
    Table([h \in Intraday \ {"raise"} |-> Table([m \in Intraday |-> above_hourly_of(h, m)])])

AboveMin ==
    Table([h \in Intraday \ {"raise"} |-> Table([m \in Intraday |-> above_min_of(h, m)])])

(***************************************************************************)
(* State                                                                   *)
(***************************************************************************)
VARIABLES
    universes,       \* lists the ticker-universe provider may return
    market,          \* responses the market-data provider may give
    pc,              \* position of the request handler (screen)
    tickers,         \* the normalised ticker list
    submitted,       \* number of tickers handed to executor.submit
    queue,           \* the executor's work queue (FIFO)
    running,         \* bag of pipeline evaluations in flight
    finished,        \* bag of completed futures not yet yielded by as_completed
    yielded,         \* bag of futures the as_completed loop has processed
    bullish_stocks,  \* the accumulator list
    response,        \* the JSON result of the request
    probe            \* a pure function of the program applied to an input

vars == <<universes, market, pc, tickers, submitted, queue, running, finished,
          yielded, bullish_stocks, response, probe>>

\* The variables of a scan.
scan == <<universes, market, pc, tickers, submitted, queue, running, finished,
          yielded, bullish_stocks, response>>

\* No function is being applied on its own.
NoProbe == [op |-> "none"]

\* ThreadPoolExecutor(max_workers=30)
max_workers == 30

NoCalls == [daily |-> 0, hourly |-> 0, minute |-> 0]

NoneYet == [daily |-> "None", hourly |-> "None", minute |-> "None"]

\* A submitted call is_bullish(ticker) that a worker has just picked up.
NewTask(ticker) ==
    [ticker |-> ticker, at |-> "daily", calls |-> NoCalls, resp |-> NoneYet,
     above |-> NoneYet, cross |-> "None", result |-> "None"]

Put(B, e) == B (+) SetToBag({e})

Take(B, e) == B (-) SetToBag({e})

NoResponse == [bullish_stocks |-> <<>>, count |-> 0, total_scanned |-> 0]

Init ==
    /\ universes = RawUniverses
    /\ market = Responses
    /\ pc = "start"
    /\ tickers = <<>>
    /\ submitted = 0
    /\ queue = <<>>
    /\ running = EmptyBag
    /\ finished = EmptyBag
    /\ yielded = EmptyBag
    /\ bullish_stocks = <<>>
    /\ response = NoResponse
    /\ probe = NoProbe

\* The same program facing a long universe and a provider that is down.
InitPool ==
    /\ universes = {PoolUniverse}
    /\ market = {"raise"}
    /\ pc = "start"
    /\ tickers = <<>>
    /\ submitted = 0
    /\ queue = <<>>
    /\ running = EmptyBag
    /\ finished = EmptyBag
    /\ yielded = EmptyBag
    /\ bullish_stocks = <<>>
    /\ response = NoResponse
    /\ probe = NoProbe

(***************************************************************************)
(* Request handler (screen)                                                *)
(***************************************************************************)
\* Line 87: get_sp500_tickers() returns the normalised symbols.
GetTickers ==
    /\ pc = "start"
    /\ \E raw \in universes :
          /\ tickers' = [i \in 1..Len(raw) |-> replace(raw[i])]
          /\ pc' = IF Len(raw) = 0 THEN "collect" ELSE "submit"
    /\ UNCHANGED probe
    /\ UNCHANGED <<universes, market, submitted, queue, running, finished, yielded,
                   bullish_stocks, response>>

\* Line 87: get_sp500_tickers() raises; the request fails.
GetTickersFails ==
    /\ pc = "start"
    /\ pc' = "failed"
    /\ UNCHANGED probe
    /\ UNCHANGED <<universes, market, tickers, submitted, queue, running, finished,
                   yielded, bullish_stocks, response>>

\* Line 92: executor.submit(is_bullish, ticker) for the next ticker.
Submit ==
    /\ pc = "submit"
    /\ submitted < Len(tickers)
    /\ queue' = Append(queue, tickers[submitted + 1])
    /\ submitted' = submitted + 1
    /\ pc' = IF submitted + 1 = Len(tickers) THEN "collect" ELSE "submit"
    /\ UNCHANGED probe
    /\ UNCHANGED <<universes, market, tickers, running, finished, yielded,
                   bullish_stocks, response>>

\* Variant of worker_available for a pool without a size limit.
worker_available_unbounded(inflight) == TRUE

\* A pool worker is free to take a work item.
worker_available(inflight) == inflight < max_workers

\* A worker thread takes the oldest work item and enters is_bullish.
StartTask ==
    /\ queue # <<>>
    /\ worker_available(BagCardinality(running))
    /\ running' = Put(running, NewTask(Head(queue)))
    /\ queue' = Tail(queue)
    /\ UNCHANGED probe
    /\ UNCHANGED <<universes, market, pc, tickers, submitted, finished, yielded,
                   bullish_stocks, response>>

\* Variant of Advance in which a fetch that meets an error never returns.
Advance_hangs(t, outcome, nextAt) ==
    IF outcome = "Pass" THEN [t EXCEPT !.at = nextAt]
    ELSE IF outcome = "Raise" THEN [t EXCEPT !.at = "hung"]
    ELSE [t EXCEPT !.at = "done", !.result = except_handler(outcome)]

\* Variant of Advance that issues the same fetch again after an error.
Advance_retry(t, outcome, nextAt) ==
    IF outcome = "Pass" THEN [t EXCEPT !.at = nextAt]
    ELSE IF outcome = "Raise" THEN t
    ELSE [t EXCEPT !.at = "done", !.result = except_handler(outcome)]

\* The task after a step with the given outcome: it goes on or returns.
Advance(t, outcome, nextAt) ==
    IF outcome = "Pass" THEN [t EXCEPT !.at = nextAt]
    ELSE [t EXCEPT !.at = "done", !.result = except_handler(outcome)]

Move(t, t2) ==
    IF t2.at = "done"
    THEN /\ running' = Take(running, t)
         /\ finished' = Put(finished, t2)
    ELSE /\ running' = Put(Take(running, t), t2)
         /\ finished' = finished

\* Lines 55-68: the daily fetch and the daily check.
FetchDaily ==
    /\ \E t \in BagToSet(running) : \E r \in market :
          /\ t.at = "daily"
          /\ Move(t, Advance([t EXCEPT !.calls.daily = @ + 1,
                                       !.resp.daily = r,
                                       !.above.daily = AboveDaily[r],
                                       !.cross = CrossDaily[r]],
                             DailyStep[r], "hourly"))
    /\ UNCHANGED probe
    /\ UNCHANGED <<universes, market, pc, tickers, submitted, queue, yielded,
                   bullish_stocks, response>>

\* Line 71: the hourly fetch.
FetchHourly ==
    /\ \E t \in BagToSet(running) : \E r \in market \cap Intraday :
          /\ t.at = "hourly"
          /\ Move(t, Advance([t EXCEPT !.calls.hourly = @ + 1, !.resp.hourly = r],
                             hourly_step(r), "minute"))
    /\ UNCHANGED probe
    /\ UNCHANGED <<universes, market, pc, tickers, submitted, queue, yielded,
                   bullish_stocks, response>>

\* Lines 72-80: the minute fetch and the two intraday cloud checks.
FetchMinute ==
    /\ \E t \in BagToSet(running) : \E r \in market \cap Intraday :
          /\ t.at = "minute"
          /\ Move(t, Advance([t EXCEPT !.calls.minute = @ + 1,
                                       !.resp.minute = r,
                                       !.above.hourly = AboveHourly[t.resp.hourly][r],
                                       !.above.minute = AboveMin[t.resp.hourly][r]],
                             MinuteStep[t.resp.hourly][r], "done"))
    /\ UNCHANGED probe
    /\ UNCHANGED <<universes, market, pc, tickers, submitted, queue, yielded,
                   bullish_stocks, response>>

\* Variant of accumulate that restarts the list on a non-qualifying ticker.
accumulate_reset(stocks, t) ==
    IF t.result = "True" THEN Append(stocks, t.ticker) ELSE <<>>

\* Variant of accumulate that appends a qualifying ticker twice.
accumulate_twice(stocks, t) ==
    IF t.result = "True" THEN Append(Append(stocks, t.ticker), t.ticker) ELSE stocks

\* Lines 94-95: if future.result(): bullish_stocks.append(ticker)
accumulate(stocks, t) ==
    IF t.result = "True" THEN Append(stocks, t.ticker) ELSE stocks

\* Lines 93-95: as_completed yields a completed future; future.result()
\* re-raises what the call raised, otherwise a true result is appended.
Collect ==
    /\ pc = "collect"
    /\ \E t \in BagToSet(finished) :
          /\ finished' = Take(finished, t)
          /\ yielded' = Put(yielded, t)
          /\ pc' = IF t.result = "Raise" THEN "failed" ELSE "collect"
          /\ bullish_stocks' = IF t.result = "Raise" THEN bullish_stocks
                               ELSE accumulate(bullish_stocks, t)
    /\ UNCHANGED probe
    /\ UNCHANGED <<universes, market, tickers, submitted, queue, running, response>>

\* Variant of build_response that reports the qualifying count as the total.
build_response_count_as_total(stocks, all) ==
    [bullish_stocks |-> stocks, count |-> Len(stocks), total_scanned |-> Len(stocks)]

\* Lines 97-118: all futures yielded; sort and build the result.
build_response(stocks, all) ==
    [bullish_stocks |-> stocks, count |-> Len(stocks), total_scanned |-> Len(all)]

Finish ==
    /\ pc = "collect"
    /\ BagCardinality(yielded) = Len(tickers)
    /\ bullish_stocks' = list_sort(bullish_stocks)
    /\ response' = build_response(list_sort(bullish_stocks), tickers)
    /\ pc' = "done"
    /\ UNCHANGED probe
    /\ UNCHANGED <<universes, market, tickers, submitted, queue, running, finished,
                   yielded>>

Next ==
    \/ GetTickers
    \/ GetTickersFails
    \/ Submit
    \/ StartTask
    \/ FetchDaily
    \/ FetchHourly
    \/ FetchMinute
    \/ Collect
    \/ Finish

Spec == Init /\ [][Next]_vars

NextPool ==
    \/ GetTickers
    \/ Submit
    \/ StartTask
    \/ FetchDaily
    \/ Collect
    \/ Finish

SpecPool == InitPool /\ [][NextPool]_vars

\* The provider behaviours of the fair scan: an error, an empty series, a
\* series that passes every check and one that fails the daily check.
FairMarket == {"raise", "empty", "up", "late"}

InitFair ==
    /\ universes = RawUniverses
    /\ market = FairMarket
    /\ pc = "start"
    /\ tickers = <<>>
    /\ submitted = 0
    /\ queue = <<>>
    /\ running = EmptyBag
    /\ finished = EmptyBag
    /\ yielded = EmptyBag
    /\ bullish_stocks = <<>>
    /\ response = NoResponse
    /\ probe = NoProbe

\* The request handler's thread keeps running, a pool worker that can take
\* a work item does so, and every yf.download call returns or raises.
Fairness ==
    /\ WF_vars(Submit)
    /\ WF_vars(StartTask)
    /\ WF_vars(FetchDaily)
    /\ WF_vars(FetchHourly)
    /\ WF_vars(FetchMinute)
    /\ WF_vars(Collect)
    /\ WF_vars(Finish)

SpecFair == InitFair /\ [][Next]_vars /\ Fairness

(***************************************************************************)
(* The program's functions applied on their own to bounded inputs          *)
(***************************************************************************)
\* The scan has not begun.
ScanIdle ==
    /\ universes = RawUniverses
    /\ market = Responses
    /\ pc = "start"
    /\ tickers = <<>>
    /\ submitted = 0
    /\ queue = <<>>
    /\ running = EmptyBag
    /\ finished = EmptyBag
    /\ yielded = EmptyBag
    /\ bullish_stocks = <<>>
    /\ response = NoResponse

\* df.iloc[:n], the first n bars of a frame.
head(df, n) == [rows |-> n, cols |-> [c \in DOMAIN df.cols |-> SubSeq(df.cols[c], 1, n)]]

\* Number of bars of the oscillator series the cross test is run over.
CrossBars == 4

OscValues == {-1, 0, 1}

SigValues == {0, 1}

\* Frames that carry an oscillator and a signal line, one bar seen so far.
CrossInputs ==
    {[op |-> "cross",
      df |-> [rows |-> CrossBars,
              cols |-> [MACD |-> [i \in 1..CrossBars |-> Num(o[i])],
                        MACD_Signal |-> [i \in 1..CrossBars |-> Num(g[i])]]],
      bar |-> 1,
      fired |-> {}] : o \in [1..CrossBars -> OscValues], g \in [1..CrossBars -> SigValues]}

\* Lines 64-65 with the next bar as the latest bar of the series.
EvalCross ==
    /\ probe.op = "cross"
    /\ probe.bar < probe.df.rows
    /\ probe' = [probe EXCEPT !.bar = @ + 1,
                              !.fired = IF macd_cross(head(probe.df, probe.bar + 1))
                                        THEN @ \cup {probe.bar + 1} ELSE @]
    /\ UNCHANGED scan

\* Line 25: rolling(26), the longest window behind Senkou_A.
SpanAWindow == 26

\* Line 31: rolling(52), the window behind Senkou_B.
SpanBWindow == 52

\* Lines 30-31: shift(26).
Displacement == 26

\* The lengths of the series the cloud computation is applied to.
CloudLengths ==
    {SpanAWindow + Displacement, SpanBWindow + Displacement, Hist, Hist + 1}

CloudShapes == {"flat", "rising", "zigzag", "gap"}

\* A price series of n bars; "gap" has one undefined high.
Bars(n, shape) ==
    CASE shape = "flat"   -> OHLC(n, Const(n, 10), Const(n, 10), Const(n, 10))
      [] shape = "rising" -> OHLC(n, [i \in 1..n |-> Num(i + 1)], [i \in 1..n |-> Num(i)],
                                  [i \in 1..n |-> Num(i)])
      [] shape = "zigzag" -> OHLC(n, [i \in 1..n |-> Num(10 + (i % 3))],
                                  [i \in 1..n |-> Num(10 - (i % 2))], Const(n, 10))
      [] shape = "gap"    -> OHLC(n, [i \in 1..n |-> IF i = n - 30 THEN NaN ELSE Num(10)],
                                  Const(n, 10), Const(n, 10))

CloudInputs ==
    {[op |-> "cloud", df |-> Bars(n, shape), done |-> FALSE, A |-> {}, B |-> {}] :
        n \in CloudLengths, shape \in CloudShapes}

\* The positions, counted from 0, at which a series is defined.
notna(s, rows) == {i - 1 : i \in {j \in 1..rows : ~isna(s[j])}}

\* Lines 20-32: add_ichimoku(df); the positions of its leading spans that
\* are defined are recorded.
ApplyIchimoku ==
    /\ probe.op = "cloud"
    /\ ~probe.done
    /\ LET ich == add_ichimoku(probe.df)
       IN  probe' = [probe EXCEPT !.done = TRUE,
                                  !.A = notna(ich.cols["Senkou_A"], ich.rows),
                                  !.B = notna(ich.cols["Senkou_B"], ich.rows)]
    /\ UNCHANGED scan

\* Longest raw symbol that is normalised.
SymbolLen == 3

\* The characters 'A', '.' and '-'.
SymbolChars == {65, 46, 45}

RawSymbolInputs == UNION {[1..n -> SymbolChars] : n \in 0..SymbolLen}

NormInputs ==
    {[op |-> "norm", raw |-> x, prev |-> x, cur |-> x, times |-> 0] : x \in RawSymbolInputs}

\* Line 16: ticker.replace('.', '-'), applied to the last result.
Normalize ==
    /\ probe.op = "norm"
    /\ probe.times < 2
    /\ probe' = [probe EXCEPT !.times = @ + 1, !.prev = probe.cur,
                              !.cur = replace(probe.cur)]
    /\ UNCHANGED scan

\* Data frames are objects: heap is the sequence of the frames that exist,
\* a reference is a position in it.
\* Variant of copy that hands back the same object.
copy_alias(heap, ref) == [heap |-> heap, ref |-> ref]

\* DataFrame.copy(): a new object with the same content.
copy(heap, ref) == [heap |-> Append(heap, heap[ref]), ref |-> Len(heap) + 1]

\* is_bullish has fetched the daily series; daily_data refers to it.
FrameInputs ==
    {[op |-> "frames", r |-> r, heap |-> <<Frame(r)>>, daily_data |-> 1, arg |-> 0,
      at |-> "fetched", above_daily |-> "None"] : r \in Responses \ {"raise"}}

\* Lines 56-59: the length check, then daily_data.copy() as the argument of
\* is_above_cloud.
CallEvaluator ==
    /\ probe.op = "frames"
    /\ probe.at = "fetched"
    /\ LET df == probe.heap[probe.daily_data]
           c  == copy(probe.heap, probe.daily_data)
       IN  IF df_empty(df) \/ df_len(df) < 100
           THEN probe' = [probe EXCEPT !.at = "returned"]
           ELSE probe' = [probe EXCEPT !.at = "evaluator", !.heap = c.heap, !.arg = c.ref]
    /\ UNCHANGED scan

\* Lines 42-49: is_above_cloud(df) on the argument: past the length check
\* df.copy() is made and add_ichimoku assigns its columns into that object
\* (nothing is assigned when the High or Low lookup raises on lines 21-22).
EvaluateCloud ==
    /\ probe.op = "frames"
    /\ probe.at = "evaluator"
    /\ LET df    == probe.heap[probe.arg]
           c     == copy(probe.heap, probe.arg)
           above == is_above_cloud(df)
       IN  probe' = [probe EXCEPT
               !.above_daily = above,
               !.at = IF above = "Raise" THEN "returned" ELSE "momentum",
               !.heap = IF df_len(df) < 100 THEN @
                        ELSE IF ~HasCol(df, "High") \/ ~HasCol(df, "Low") THEN c.heap
                        ELSE [c.heap EXCEPT ![c.ref] = add_ichimoku(@)]]
    /\ UNCHANGED scan

\* Line 60: daily_data = add_macd(daily_data) assigns the MACD columns into
\* the fetched object (the Close lookup on line 36 raises when it is absent).
ComputeMomentum ==
    /\ probe.op = "frames"
    /\ probe.at = "momentum"
    /\ LET df == probe.heap[probe.daily_data]
       IN  IF ~HasCol(df, "Close")
           THEN probe' = [probe EXCEPT !.at = "returned"]
           ELSE probe' = [probe EXCEPT !.at = "gate",
                                      !.heap[probe.daily_data] = add_macd(df)]
    /\ UNCHANGED scan

InitEngine ==
    /\ ScanIdle
    /\ \/ probe \in CrossInputs
       \/ probe \in CloudInputs
       \/ probe \in NormInputs
       \/ probe \in FrameInputs

NextEngine ==
    \/ EvalCross
    \/ ApplyIchimoku
    \/ Normalize
    \/ CallEvaluator
    \/ EvaluateCloud
    \/ ComputeMomentum

SpecEngine == InitEngine /\ [][NextEngine]_vars

(***************************************************************************)
(* Properties                                                              *)
(***************************************************************************)
\* Every call of is_bullish the scan has started.
AllTasks == BagToSet(running) \cup BagToSet(finished) \cup BagToSet(yielded)

\* The calls of is_bullish that have returned.
DoneTasks == BagToSet(finished) \cup BagToSet(yielded)

Kinds == {"daily", "hourly", "minute"}

\* A response that carries a series with the three price columns.
HasPriceColumns(r) ==
    /\ r # "raise"
    /\ {"High", "Low", "Close"} \subseteq DOMAIN Frame(r).cols

WellFormedTable == Table([r \in Responses |-> HasPriceColumns(r)])

WellFormed(r) == r \in Responses /\ WellFormedTable[r]

\* The daily check as the pipeline's steps 1-5 state it.
DailyCheckPasses ==
    Table([r \in Responses |->
        /\ r # "raise"
        /\ ~df_empty(Frame(r))
        /\ df_len(Frame(r)) >= 100
        /\ is_above_cloud(Frame(r)) = "True"
        /\ HasCol(Frame(r), "Close")
        /\ ~isna(iloc(add_macd(Frame(r)).cols["MACD"], Frame(r).rows, -1))
        /\ macd_cross(add_macd(Frame(r)))])

\* A fetched series that is non-empty and above its cloud.
SeriesAbove ==
    Table([r \in Responses |->
        /\ r # "raise"
        /\ ~df_empty(Frame(r))
        /\ is_above_cloud(Frame(r)) = "True"])

\* C3's condition on what the three fetches of a call returned.
Qualifies(t) ==
    /\ t.resp.daily # "None"
    /\ DailyCheckPasses[t.resp.daily]
    /\ t.resp.hourly \notin {"None", "raise"}
    /\ t.resp.minute \notin {"None", "raise"}
    /\ SeriesAbove[t.resp.hourly]
    /\ SeriesAbove[t.resp.minute]

\* C1: whenever the daily check of a call fails (fetch error, empty, fewer
\* than 100 bars, oscillator undefined, or not (above and cross)), the daily
\* fetch was issued exactly once and the hourly and minute fetches never.
C1_DailyFailureStopsFetches ==
    \A t \in AllTasks :
        (t.resp.daily # "None" /\ ~DailyCheckPasses[t.resp.daily]) =>
            t.calls = [daily |-> 1, hourly |-> 0, minute |-> 0]

\* A call whose daily series is above the cloud but has no cross has returned.
C1_Witness ==
    \E t \in DoneTasks :
        /\ t.resp.daily = "late"
        /\ t.above.daily = "True"
        /\ ~DailyCheckPasses["late"]
        /\ t.calls.daily = 1

\* A fetch that gave an error, an empty series, or malformed data.
ProviderFailure(r) == r = "raise" \/ df_empty(Frame(r)) \/ ~HasPriceColumns(r)

ProviderFailureTable == Table([r \in Responses |-> ProviderFailure(r)])

FetchFailed(r) == r # "None" /\ ProviderFailureTable[r]

\* C2: a call of is_bullish never raises to its caller: once it has returned
\* its result is exactly one of True (QUALIFIES) and False (DOES-NOT-QUALIFY),
\* and it is False whenever one of its fetches failed.
C2_PipelineNeverRaises ==
    /\ \A t \in BagToSet(running) : t.at # "done" /\ t.result = "None"
    /\ \A t \in DoneTasks :
          /\ t.at = "done"
          /\ t.result \in {"True", "False"}
          /\ (\E k \in Kinds : FetchFailed(t.resp[k])) => t.result = "False"

\* A call whose third fetch raised, after two good ones, has returned False.
C2_Witness ==
    \E t \in DoneTasks :
        /\ t.resp.minute = "raise"
        /\ t.resp.hourly = "up"
        /\ t.result = "False"

\* C3: a call ends in QUALIFIES iff the daily series has at least 100 bars,
\* is above its cloud, has a defined oscillator and a momentum cross, both
\* intraday fetches return non-empty series and the evaluator is true on
\* both; in every other case it ends in DOES-NOT-QUALIFY.
C3_QualifiesIff ==
    \A t \in DoneTasks :
        /\ (t.result = "True") <=> Qualifies(t)
        /\ (t.result = "False") <=> ~Qualifies(t)

\* Calls have ended both ways after all three fetches: one QUALIFIES, one
\* DOES-NOT-QUALIFY because only the hourly series is above its cloud.
C3_Witness ==
    /\ \E t \in DoneTasks : t.result = "True" /\ t.calls.minute = 1
    /\ \E t \in DoneTasks :
          /\ t.result = "False"
          /\ t.above.hourly = "True"
          /\ t.above.minute = "False"

\* The latest leading spans and close of a well-formed response.
Latest ==
    Table([r \in {x \in Responses : HasPriceColumns(x) /\ Frame(x).rows > 0} |->
        LET ich == add_ichimoku(Frame(r))
        IN  [a     |-> iloc(ich.cols["Senkou_A"], ich.rows, -1),
             b     |-> iloc(ich.cols["Senkou_B"], ich.rows, -1),
             close |-> iloc(ich.cols["Close"], ich.rows, -1),
             rows  |-> ich.rows]])

\* C4: on a price series the evaluator returns false when the series has
\* fewer than 100 bars, false when the latest leading span A or B is
\* undefined, and otherwise true iff the latest close is strictly greater
\* than both latest leading spans.
C4_EvaluatorContract ==
    \A t \in AllTasks : \A k \in Kinds :
        (t.above[k] # "None" /\ WellFormed(t.resp[k])) =>
            LET l == Latest[t.resp[k]]
            IN  /\ l.rows < 100 => t.above[k] = "False"
                /\ (isna(l.a) \/ isna(l.b)) => t.above[k] = "False"
                /\ (l.rows >= 100 /\ ~isna(l.a) /\ ~isna(l.b)) =>
                      ((t.above[k] = "True") <=> (RGt(l.close, l.a) /\ RGt(l.close, l.b)))
                /\ t.above[k] \in {"True", "False"}

\* The evaluator has been applied to a series of 99 bars whose close is above
\* both spans, after returning true on a series of 100 bars.
C4_Witness ==
    \E t \in DoneTasks :
        /\ t.resp.hourly = "up"
        /\ t.above.hourly = "True"
        /\ t.resp.minute = "short"
        /\ t.above.minute = "False"
        /\ RGt(Latest["short"].close, Latest["short"].a)
        /\ RGt(Latest["short"].close, Latest["short"].b)

\* C5 as stated: the evaluator never lets an exception escape, whatever the
\* series.
C5_EvaluatorNeverRaises ==
    \A t \in AllTasks : \A k \in Kinds : t.above[k] # "Raise"

\* The cloud computation or the close lookup fails on the response: the
\* series has at least 100 bars and lacks the high or the low column, or
\* lacks the close column while both latest leading spans are defined.
CloudLookupFails(r) ==
    /\ r # "raise"
    /\ df_len(Frame(r)) >= 100
    /\ \/ ~HasCol(Frame(r), "High")
       \/ ~HasCol(Frame(r), "Low")
       \/ /\ ~HasCol(Frame(r), "Close")
          /\ LET ich == add_ichimoku(Frame(r))
             IN  /\ ~isna(iloc(ich.cols["Senkou_A"], ich.rows, -1))
                 /\ ~isna(iloc(ich.cols["Senkou_B"], ich.rows, -1))

LookupFails == Table([r \in Responses |-> CloudLookupFails(r)])

\* C5 amended: the evaluator does not absorb its own failures.  On a series
\* of at least 100 bars that lacks the high or low column, or lacks the close
\* column while both latest spans are defined, the failure escapes the
\* evaluator as an exception; the pipeline catches it at its boundary and the
\* call ends in DOES-NOT-QUALIFY.  On every other series the evaluator
\* returns a boolean.
C5_EvaluatorRaisesPipelineCatches ==
    \A t \in AllTasks : \A k \in Kinds :
        t.above[k] # "None" =>
            /\ (t.above[k] = "Raise") <=> LookupFails[t.resp[k]]
            /\ t.above[k] \in {"True", "False", "Raise"}
            /\ t.above[k] = "Raise" => (t.at = "done" /\ t.result = "False")

\* The evaluator has raised on a daily series without its High column and
\* the call has returned False.
C5_Witness ==
    \E t \in DoneTasks :
        /\ t.resp.daily = "nohigh"
        /\ t.above.daily = "Raise"
        /\ t.result = "False"

\* The ticker appears in the list.
InList(ticker, s) == \E i \in 1..Len(s) : s[i] = ticker

\* C6: ticker failures never abort the scan and never change another
\* ticker's verdict: a call with a failed fetch ends DOES-NOT-QUALIFY, every
\* call's verdict is decided by its own three responses alone, the scan fails
\* only before any ticker was submitted, and the finished scan lists exactly
\* the tickers whose own responses qualify.
C6_FailuresAreIsolated ==
    /\ \A t \in DoneTasks :
          /\ (\E k \in Kinds : FetchFailed(t.resp[k])) => t.result = "False"
          /\ (t.result = "True") <=> Qualifies(t)
    /\ pc = "failed" => (AllTasks = {} /\ submitted = 0)
    /\ pc = "collect" =>
          \A t \in BagToSet(yielded) : InList(t.ticker, bullish_stocks) <=> Qualifies(t)
    /\ pc = "done" =>
          /\ BagCardinality(yielded) = Len(tickers)
          /\ \A t \in BagToSet(yielded) :
                InList(t.ticker, response.bullish_stocks) <=> Qualifies(t)

\* A scan of N = 2 tickers has finished with N-1 provider failures and the
\* remaining ticker listed.
C6_Witness ==
    /\ pc = "done"
    /\ Len(tickers) = 2
    /\ \E t \in BagToSet(yielded) : t.resp.daily = "raise"
    /\ \E t \in BagToSet(yielded) :
          /\ Qualifies(t)
          /\ response.bullish_stocks = <<t.ticker>>

\* C7: whatever the order of the universe and of the workers' completion,
\* the finished scan returns the lexicographically ascending list of exactly
\* the tickers whose verdict is QUALIFIES, each once.
C7_SortedQualifyingList ==
    pc = "done" =>
        LET s == response.bullish_stocks
            Q == {t.ticker : t \in {u \in BagToSet(yielded) : u.result = "True"}}
        IN  /\ Len(s) = Cardinality(Q)
            /\ {s[i] : i \in 1..Len(s)} = Q
            /\ \A i, j \in 1..Len(s) : i < j => str_lt(s[i], s[j])
            /\ s = bullish_stocks

\* A scan whose universe lists the larger symbol first has finished with both
\* tickers qualifying.
C7_Witness ==
    /\ pc = "done"
    /\ Len(tickers) = 2
    /\ str_lt(tickers[2], tickers[1])
    /\ Len(response.bullish_stocks) = 2

\* C8: in every scan result count is the length of the qualifying list and
\* total_scanned the length of the universe; for the universe AAA, BBB with
\* AAA passing every check and BBB's daily fetch empty the result is
\* qualifying = [AAA], count = 1, total_scanned = 2.
C8_CountsAndExample ==
    pc = "done" =>
        /\ response.count = Len(response.bullish_stocks)
        /\ response.total_scanned = Len(tickers)
        /\ (/\ tickers = <<RawSymbols[1], RawSymbols[2]>>
            /\ \E t \in BagToSet(yielded) : t.ticker = RawSymbols[1] /\ Qualifies(t)
            /\ \E t \in BagToSet(yielded) : t.ticker = RawSymbols[2] /\ t.resp.daily = "empty")
           => response = [bullish_stocks |-> <<RawSymbols[1]>>,
                          count |-> 1, total_scanned |-> 2]

\* The scan of the example has finished.
C8_Witness ==
    /\ pc = "done"
    /\ tickers = << <<65, 65, 65>>, <<66, 66, 66>> >>
    /\ \E t \in BagToSet(yielded) : t.ticker = <<65, 65, 65>> /\ t.result = "True"
    /\ \E t \in BagToSet(yielded) : t.ticker = <<66, 66, 66>> /\ t.resp.daily = "empty"

\* C9: at most 30 pipeline evaluations are in flight at any time, however
\* many tickers the universe holds.
C9_BoundedInFlight == BagCardinality(running) <= 30

\* Thirty evaluations are in flight while a further ticker waits in the queue.
C9_Witness ==
    /\ BagCardinality(running) = 30
    /\ queue # <<>>
    /\ Len(tickers) > 30

\* C10: the request fails only by a scan-wide failure, the universe provider
\* failing before anything is scanned; ticker failures of any kind leave the
\* request succeeding and show only as the ticker's absence from the list.
C10_OnlyScanWideFailureFails ==
    /\ pc = "failed" => (tickers = <<>> /\ submitted = 0 /\ queue = <<>> /\ AllTasks = {})
    /\ \A t \in DoneTasks : t.result # "Raise"
    /\ pc = "done" =>
          /\ response.total_scanned = Len(tickers)
          /\ \A t \in BagToSet(yielded) :
                (\E k \in Kinds : FetchFailed(t.resp[k])) =>
                    ~InList(t.ticker, response.bullish_stocks)

\* A scan in which every ticker failed, one by a provider error and one by
\* malformed data, has produced a result.
C10_Witness ==
    /\ pc = "done"
    /\ \E t \in BagToSet(yielded) : t.resp.daily = "raise"
    /\ \E t \in BagToSet(yielded) : t.resp.daily = "noclose"
    /\ response.count = 0
    /\ response.total_scanned = 2

\* The oscillator and the signal line at the last three bars of a response
\* on which the momentum computation runs.
MacdTail ==
    Table([r \in {x \in Responses : HasPriceColumns(x) /\ Frame(x).rows >= 3} |->
        LET m == add_macd(Frame(r))
        IN  [osc1 |-> iloc(m.cols["MACD"], m.rows, -1),
             sig1 |-> iloc(m.cols["MACD_Signal"], m.rows, -1),
             osc2 |-> iloc(m.cols["MACD"], m.rows, -2),
             sig2 |-> iloc(m.cols["MACD_Signal"], m.rows, -2),
             osc3 |-> iloc(m.cols["MACD"], m.rows, -3),
             sig3 |-> iloc(m.cols["MACD_Signal"], m.rows, -3)]])

\* C11 as stated: the cross signal is true iff two bars before the latest
\* bar the oscillator was at or below the signal line and at the latest bar
\* it is strictly above it.
C11_CrossReadsTwoBarsAgo ==
    \A t \in AllTasks :
        t.cross # "None" =>
            LET m == MacdTail[t.resp.daily]
            IN  (t.cross = "True") <=> (RLe(m.osc3, m.sig3) /\ RGt(m.osc1, m.sig1))

\* C11 amended: the cross signal is true iff at the bar immediately before
\* the latest bar the oscillator was at or below the signal line and at the
\* latest bar it is strictly above it.
C11_CrossReadsPreviousBar ==
    \A t \in AllTasks :
        t.cross # "None" =>
            LET m == MacdTail[t.resp.daily]
            IN  (t.cross = "True") <=> (RLe(m.osc2, m.sig2) /\ RGt(m.osc1, m.sig1))

\* The signal has been computed false on a series whose oscillator was at the
\* signal line two bars back and is above it at both later bars, and true on
\* a series that crosses at the latest bar.
C11_Witness ==
    /\ \E t \in AllTasks :
          /\ t.resp.daily = "late"
          /\ t.cross = "False"
          /\ RLe(MacdTail["late"].osc3, MacdTail["late"].sig3)
          /\ RGt(MacdTail["late"].osc2, MacdTail["late"].sig2)
          /\ RGt(MacdTail["late"].osc1, MacdTail["late"].sig1)
    /\ \E t \in AllTasks : t.resp.daily = "up" /\ t.cross = "True"

\* The number of calls for a symbol in a bag of calls.
CallsIn(B, x) == BagCardinality([t \in {u \in BagToSet(B) : u.ticker = x} |-> B[t]])

\* The number of calls of is_bullish started for a symbol.
Runs(x) == CallsIn(running, x) + CallsIn(finished, x) + CallsIn(yielded, x)

Occurrences(x, list) == Cardinality({i \in 1..Len(list) : list[i] = x})

\* C14: nothing is retried: a scan starts at most one call of is_bullish per
\* ticker of the universe, a call issues each of its three fetches at most
\* once, and a call one of whose fetches failed (error, empty series or
\* malformed data) never qualifies: once it has returned its result is False.
C14_NoRetry ==
    /\ \A i \in 1..Len(tickers) : Runs(tickers[i]) <= Occurrences(tickers[i], tickers)
    /\ \A t \in AllTasks :
          /\ \A k \in Kinds :
                /\ t.calls[k] <= 1
                /\ (t.calls[k] = 1) <=> (t.resp[k] # "None")
          /\ (\E k \in Kinds : FetchFailed(t.resp[k])) =>
                /\ t.result # "True"
                /\ t.at = "done" => t.result = "False"

\* A call whose hourly fetch raised has returned False after one daily and
\* one hourly fetch, and the scan has finished with one call per ticker.
C14_Witness ==
    /\ pc = "done"
    /\ \A i \in 1..Len(tickers) : Runs(tickers[i]) = 1
    /\ \E t \in DoneTasks :
          /\ t.resp.hourly = "raise"
          /\ t.calls = [daily |-> 1, hourly |-> 1, minute |-> 0]
          /\ t.result = "False"

\* C19: a call fetches in the order daily, hourly, minute: a later fetch is
\* issued only after the earlier ones, the hourly fetch only after the daily
\* check passed; once the hourly fetch has returned without raising, even
\* with an empty series, the call goes on to the minute fetch and does not
\* return before it has issued it.
C19_MinuteFetchedAfterEmptyHourly ==
    \A t \in AllTasks :
        /\ t.calls.minute <= t.calls.hourly
        /\ t.calls.hourly <= t.calls.daily
        /\ (t.at \in {"hourly", "minute"} \/ t.calls.hourly = 1) =>
              DailyCheckPasses[t.resp.daily]
        /\ t.at = "hourly" <=> (t.calls.daily = 1 /\ t.calls.hourly = 0 /\ t.result = "None")
        /\ t.resp.hourly \notin {"None", "raise"} =>
              /\ t.at = "minute" <=> t.calls.minute = 0
              /\ t.at = "done" <=> t.calls.minute = 1
        /\ t.resp.hourly = "raise" => (t.at = "done" /\ t.calls.minute = 0)

\* A call whose hourly fetch returned an empty series has gone on to fetch
\* the minute series and has then returned False.
C19_Witness ==
    \E t \in DoneTasks :
        /\ t.resp.hourly = "empty"
        /\ t.calls = [daily |-> 1, hourly |-> 1, minute |-> 1]
        /\ t.resp.minute = "up"
        /\ t.result = "False"

Range(list) == {list[i] : i \in 1..Len(list)}

\* The number of yielded calls for a symbol that returned True.
QualifiedRuns(x) ==
    BagCardinality([t \in {u \in BagToSet(yielded) : u.ticker = x /\ u.result = "True"}
                       |-> yielded[t]])

\* A step of the request handler's loop that appends the ticker of one
\* completed call that returned True.
AppendsOne ==
    /\ pc = "collect"
    /\ \E t \in BagToSet(finished) :
          /\ t.result = "True"
          /\ finished' = Take(finished, t)
          /\ yielded' = Put(yielded, t)
          /\ bullish_stocks' = Append(bullish_stocks, t.ticker)

\* The final in-place sort of the request handler.
SortsOnly ==
    /\ pc = "collect"
    /\ pc' = "done"
    /\ Len(bullish_stocks') = Len(bullish_stocks)
    /\ \A x \in Range(tickers) :
          Occurrences(x, bullish_stocks') = Occurrences(x, bullish_stocks)

\* C17: appends to the accumulator are serialized: every step that changes
\* the accumulator is a step of the request handler's thread that appends
\* exactly one ticker (or its final sort), a step in which a worker starts or
\* advances a call never changes it, and a ticker appears in it once for
\* each yielded call on that ticker that returned True.
C17_AppendsAreSerialized ==
    [][/\ bullish_stocks' # bullish_stocks =>
             /\ running' = running
             /\ queue' = queue
             /\ AppendsOne \/ SortsOnly
       /\ (running' # running \/ queue' # queue) => bullish_stocks' = bullish_stocks
       /\ \A x \in Range(tickers') :
             Occurrences(x, bullish_stocks') = QualifiedRuns(x)']_vars

\* Two calls have returned True and both tickers have been appended, the
\* second while the accumulator already held the first.
C17_Witness ==
    /\ pc = "collect"
    /\ Len(bullish_stocks) = 2
    /\ bullish_stocks[1] # bullish_stocks[2]
    /\ \A i \in 1..2 : QualifiedRuns(bullish_stocks[i]) = 1

\* C18: under fair scheduling, with every fetch returning or failing, a scan
\* that has obtained its universe eventually completes; when it has
\* completed, is_bullish has run exactly once per ticker of the universe and
\* every run has returned and been collected, and the result exists only
\* then.
C18_ScanCompletes ==
    /\ (pc \in {"submit", "collect"}) ~> (pc = "done")
    /\ [](pc = "done" =>
             /\ queue = <<>>
             /\ running = EmptyBag
             /\ finished = EmptyBag
             /\ BagCardinality(yielded) = Len(tickers)
             /\ \A i \in 1..Len(tickers) :
                   Runs(tickers[i]) = Occurrences(tickers[i], tickers)
             /\ \A t \in BagToSet(yielded) :
                   t.at = "done" /\ t.result \in {"True", "False"}
             /\ response.total_scanned = Len(tickers))
    /\ [](response # NoResponse => pc = "done")

\* A scan over the whole universe has completed with a call that failed in
\* a fetch and a call that qualified.
C18_Witness ==
    /\ pc = "done"
    /\ Len(tickers) = NTickers
    /\ BagCardinality(yielded) = NTickers
    /\ \E t \in BagToSet(yielded) : t.resp.daily = "raise"
    /\ \E t \in BagToSet(yielded) : t.result = "True"

\* The oscillator is at or below the signal line on every bar before bar k
\* and strictly above it on bar k and every later bar.
CrossesAt(df, k) ==
    \A i \in 1..df.rows :
        IF i < k THEN RLe(df.cols["MACD"][i], df.cols["MACD_Signal"][i])
        ELSE RGt(df.cols["MACD"][i], df.cols["MACD_Signal"][i])

\* C12: for an oscillator at or below the signal line on every bar up to
\* bar k-1 and strictly above it from bar k on, the cross test evaluated
\* with each bar in turn as the latest bar is true exactly once, at bar k.
C12_CrossFiresOnceAtCrossing ==
    probe.op = "cross" =>
        \A k \in 2..probe.df.rows :
            CrossesAt(probe.df, k) => probe.fired = {k} \cap (2..probe.bar)

\* Every bar of a series that crosses at its third bar has been the latest
\* bar, and the test was true at the third bar only.
C12_Witness ==
    /\ probe.op = "cross"
    /\ probe.bar = CrossBars
    /\ CrossesAt(probe.df, 3)
    /\ probe.fired = {3}

\* Every high and every low of a frame is defined.
HighLowDefined(df) ==
    \A i \in 1..df.rows : ~isna(df.cols["High"][i]) /\ ~isna(df.cols["Low"][i])

\* The most recent Displacement positions of a series of n bars, from 0.
MostRecent(n) == (n - Displacement)..(n - 1)

\* C13 as stated: for a series of exactly window+displacement bars the
\* leading-span values at the most recent 26 positions are undefined, and
\* the value at position `window` is defined.
C13_MostRecentSpansUndefined ==
    (probe.op = "cloud" /\ probe.done /\ HighLowDefined(probe.df)) =>
        /\ probe.df.rows = SpanAWindow + Displacement =>
              /\ probe.A \cap MostRecent(probe.df.rows) = {}
              /\ SpanAWindow \in probe.A
        /\ probe.df.rows = SpanBWindow + Displacement =>
              /\ probe.B \cap MostRecent(probe.df.rows) = {}
              /\ SpanBWindow \in probe.B

\* C13 amended: for a series of exactly window+displacement bars with all
\* highs and lows defined (window 26 for span A, 52 for span B), the
\* leading-span values are undefined at every position but the most recent
\* one, and defined at the most recent position window+displacement-1
\* (counting from 0).
C13_OnlyLatestSpanDefined ==
    (probe.op = "cloud" /\ probe.done /\ HighLowDefined(probe.df)) =>
        /\ probe.df.rows = SpanAWindow + Displacement =>
              probe.A = {SpanAWindow + Displacement - 1}
        /\ probe.df.rows = SpanBWindow + Displacement =>
              probe.B = {SpanBWindow + Displacement - 1}

\* The cloud computation has run on a 78-bar series with defined highs and
\* lows: span B is defined at the latest bar and nowhere else, span A from
\* index 51 on.
C13_Witness ==
    /\ probe.op = "cloud"
    /\ probe.done
    /\ HighLowDefined(probe.df)
    /\ probe.df.rows = SpanBWindow + Displacement
    /\ probe.B = {77}
    /\ probe.A = 51..77

\* C20: for every series of at least 100 bars whose highs and lows are all
\* defined, span A is defined exactly from index 51 on and span B exactly
\* from index 77 on (counting from 0), so both are defined at the latest bar.
C20_SpansDefinedAtLatestBar ==
    (probe.op = "cloud" /\ probe.done /\ HighLowDefined(probe.df)
        /\ probe.df.rows >= 100) =>
        /\ probe.A = 51..(probe.df.rows - 1)
        /\ probe.B = 77..(probe.df.rows - 1)
        /\ probe.df.rows - 1 \in probe.A \cap probe.B

\* The cloud computation has run on a series of Hist rising bars and both
\* leading spans are defined at its latest bar.
C20_Witness ==
    /\ probe.op = "cloud"
    /\ probe.done
    /\ probe.df.rows = Hist
    /\ probe.df.rows >= 100
    /\ HighLowDefined(probe.df)
    /\ probe.df.cols["High"][Hist] = Num(Hist + 1)
    /\ Hist - 1 \in probe.A \cap probe.B

\* C15: symbol normalization is idempotent: a normalized symbol contains no
\* '.', and normalizing it again yields the same symbol.
C15_NormalizationIdempotent ==
    probe.op = "norm" =>
        /\ probe.times >= 1 => 46 \notin Range(probe.cur)
        /\ probe.times = 2 => probe.cur = probe.prev

\* A symbol with two dots has been normalized twice; the first pass changed
\* it and the second did not.
C15_Witness ==
    /\ probe.op = "norm"
    /\ probe.times = 2
    /\ probe.raw = <<65, 46, 46>>
    /\ probe.prev = <<65, 45, 45>>
    /\ probe.cur = <<65, 45, 45>>

\* C16: the evaluator leaves the series it is given unchanged, and
\* above_daily is the evaluator's value on the daily series as fetched: after
\* the evaluation both the argument and daily_data still hold the fetched
\* series, so the momentum computation reads the fetched series, and after
\* the in-place momentum computation above_daily is still that value.
C16_EvaluatorLeavesSeriesUnchanged ==
    probe.op = "frames" =>
        /\ probe.arg # 0 => probe.heap[probe.arg] = Frame(probe.r)
        /\ probe.at \in {"fetched", "evaluator", "momentum"} =>
              probe.heap[probe.daily_data] = Frame(probe.r)
        /\ probe.at = "gate" =>
              probe.heap[probe.daily_data] = add_macd(Frame(probe.r))
        /\ probe.at \in {"momentum", "gate"} =>
              /\ probe.above_daily = is_above_cloud(Frame(probe.r))
              /\ probe.above_daily \in {"True", "False"}

\* The momentum columns have been assigned into the fetched daily series
\* after an evaluation that returned True and assigned the cloud columns
\* into an object of its own.
C16_Witness ==
    /\ probe.op = "frames"
    /\ probe.at = "gate"
    /\ probe.above_daily = "True"
    /\ Len(probe.heap) = 3
    /\ HasCol(probe.heap[3], "Senkou_A")
    /\ ~HasCol(probe.heap[probe.daily_data], "Senkou_A")
    /\ HasCol(probe.heap[probe.daily_data], "MACD")
    /\ ~HasCol(probe.heap[probe.arg], "MACD")

====
